---- MODULE Spec2Model ----
(***************************************************************************)
(* The hook clients of claude-nook: claude-nook-state.py ("nook") and its  *)
(* predecessor claude-island-state.py ("island").  One process run of a    *)
(* hook is modelled: main() builds the event, send_event() picks the       *)
(* channel, send_via_socket()/send_via_tcp() talk to the companion app.    *)
(* Every socket operation is one step; the peer and the filesystem are     *)
(* separate actions that interleave with the steps of the hook.            *)
(***************************************************************************)
EXTENDS Integers, Sequences, FiniteSets, TLC

----------------------------------------------------------------------------
(* Bounds of the model                                                     *)

\* chunks the peer may put on one connection
MaxPeerSends == 2
\* times the local socket path may appear or disappear during the run
MaxFsChanges == 1
\* calls of get_host in a resolver run
MaxCalls == 3
\* length from which a buffer of the auth loop that holds no newline stops
\* storing further single "X" bytes (such a buffer can no longer trim to OK)
MaxAuthKept == 3

----------------------------------------------------------------------------
(* Program constants                                                       *)

DefaultPort == 4851
DefaultTimeout == 300
\* a port other than the default, for a discovery that reports one
DiscoveredPort == 4852

----------------------------------------------------------------------------
(* Python values.  Every value is a record so that any two compare.        *)

None == [t |-> "None"]
Unbound == [t |-> "unbound"]
Absent == "ABSENT"
Dict(d, r) == [t |-> "dict", decision |-> d, reason |-> r]
List == [t |-> "list"]
Str(s) == [t |-> "str", s |-> s]
PyInt(n) == [t |-> "int", n |-> n]

\* Python truth value of an object
Truthy(v) ==
    CASE v.t = "None" -> FALSE
      [] v.t = "str" -> v.s # <<>>
      [] v.t = "int" -> v.n # 0
      [] v.t = "dict" -> v.decision # Absent \/ v.reason # Absent
      [] OTHER -> TRUE

----------------------------------------------------------------------------
(* Bytes on the wire.  A byte string is a sequence of tokens: the          *)
(* characters "O", "K", "X", the newline "nl", the byte "xFF" (which is    *)
(* not valid UTF-8) and, as one token each, whole JSON documents.  The     *)
(* documents are the replies main() tells apart: the keys "decision" and   *)
(* "reason" present or not, and a document that is no object at all.       *)

NL == "nl"
BadByte == "xFF"
Whitespace == {NL}

DocAllow == "{decision:allow}"
DocAllowNo == "{decision:allow,reason:no}"
DocDenyNo == "{decision:deny,reason:no}"
DocDeny == "{decision:deny}"
DocDenyEmpty == "{decision:deny,reason:}"
DocAsk == "{decision:ask}"
DocMaybe == "{decision:maybe}"
DocReasonOnly == "{reason:no}"
DocEmpty == "{}"
DocList == "[1]"
JsonDocs ==
    {DocAllow, DocAllowNo, DocDenyNo, DocDeny, DocDenyEmpty, DocAsk, DocMaybe,
     DocReasonOnly, DocEmpty, DocList}

B_OK == <<"O", "K">>

\* bytes.decode(): UTF-8 decoding raises UnicodeDecodeError on a bad byte
DecodeRaises(b) == \E i \in 1..Len(b) : b[i] = BadByte

RECURSIVE lstrip(_)
lstrip(s) == IF s # <<>> /\ Head(s) \in Whitespace THEN lstrip(Tail(s)) ELSE s

RECURSIVE rstrip(_)
rstrip(s) ==
    IF s # <<>> /\ s[Len(s)] \in Whitespace
    THEN rstrip(SubSeq(s, 1, Len(s) - 1)) ELSE s

\* str.strip()
strip(s) == rstrip(lstrip(s))

\* json.loads(): one document, surrounding whitespace allowed
JsonRaises(s) == ~(Len(strip(s)) = 1 /\ strip(s)[1] \in JsonDocs)

JsonValue(doc) ==
    CASE doc = DocAllow -> Dict("allow", Absent)
      [] doc = DocAllowNo -> Dict("allow", "no")
      [] doc = DocDenyNo -> Dict("deny", "no")
      [] doc = DocDeny -> Dict("deny", Absent)
      [] doc = DocDenyEmpty -> Dict("deny", "")
      [] doc = DocAsk -> Dict("ask", Absent)
      [] doc = DocMaybe -> Dict("maybe", Absent)
      [] doc = DocReasonOnly -> Dict(Absent, "no")
      [] doc = DocEmpty -> Dict(Absent, Absent)
      [] doc = DocList -> List

json_loads(s) == JsonValue(strip(s)[1])

----------------------------------------------------------------------------
(* Host strings are sequences of characters.                               *)

Digits == {"0", "1", "2", "3", "4", "5", "6", "7", "8", "9"}

DigitVal(c) ==
    CASE c = "0" -> 0 [] c = "1" -> 1 [] c = "2" -> 2 [] c = "3" -> 3
      [] c = "4" -> 4 [] c = "5" -> 5 [] c = "6" -> 6 [] c = "7" -> 7
      [] c = "8" -> 8 [] c = "9" -> 9

\* str.split("."): the parts between the dots, empty parts included
RECURSIVE split(_, _)
split(s, cur) ==
    IF s = <<>> THEN <<cur>>
    ELSE IF Head(s) = "." THEN <<cur>> \o split(Tail(s), <<>>)
    ELSE split(Tail(s), Append(cur, Head(s)))

\* int(part) raises ValueError unless the part is a decimal numeral (the
\* host alphabet of the model has no sign, blank or underscore)
IntRaises(part) == part = <<>> \/ \E i \in 1..Len(part) : part[i] \notin Digits

RECURSIVE IntOf(_, _)
IntOf(part, acc) ==
    IF part = <<>> THEN acc ELSE IntOf(Tail(part), 10 * acc + DigitVal(Head(part)))

int(part) == IntOf(part, 0)

\* is_tailscale_ip with the upper boundary of the second part exclusive
is_tailscale_ip_Exclusive(address) ==
    LET parts == split(address, <<>>) IN
    IF Len(parts) # 4 THEN FALSE
    ELSE IF IntRaises(parts[1]) \/ IntRaises(parts[2]) THEN FALSE
    ELSE int(parts[1]) = 100 /\ 64 <= int(parts[2]) /\ int(parts[2]) < 127

is_tailscale_ip(address) ==
    LET parts == split(address, <<>>) IN
    IF Len(parts) # 4 THEN FALSE
    ELSE IF IntRaises(parts[1]) \/ IntRaises(parts[2]) THEN FALSE
    ELSE int(parts[1]) = 100 /\ 64 <= int(parts[2]) /\ int(parts[2]) <= 127

Loopback == <<"1", "2", "7", ".", "0", ".", "0", ".", "1">>
HostPrivate == <<"1", "0", ".", "0", ".", "0", ".", "1">>
HostOverlay == <<"1", "0", "0", ".", "6", "4", ".", "0", ".", "1">>

----------------------------------------------------------------------------
(* The environment of the process and the configuration loaded from it.    *)

\* an environment variable is None (unset) or a string
EnvHosts == {None, Str(HostPrivate), Str(HostOverlay)}
EnvTokens == {None, Str(<<"t">>)}
EnvModes == {None, Str("socket"), Str("tcp")}

\* os.environ.get(name, default)
Getenv(v, default) == IF v = None THEN default ELSE v

\* ConnectionConfig.__init__ of claude-nook-state.py
NookConfig(envHost, envToken, envMode) ==
    [ socket_path |-> "/tmp/claude-nook.sock",
      host |-> Getenv(envHost, Str(<<>>)),
      port |-> PyInt(DefaultPort),
      token |-> Getenv(envToken, Str(<<>>)),
      mode |-> Getenv(envMode, Str("auto")),
      timeout |-> PyInt(DefaultTimeout),
      debug |-> FALSE,
      discovered_host |-> None,
      discovery_attempted |-> FALSE ]

\* ConnectionConfig.__init__ of claude-island-state.py; it has no discovery
\* fields, the two kept here are never read or written by the island code
IslandConfig(envHost, envToken, envMode) ==
    [ socket_path |-> "/tmp/claude-island.sock",
      host |-> Getenv(envHost, Str(Loopback)),
      port |-> PyInt(DefaultPort),
      token |-> Getenv(envToken, Str(<<>>)),
      mode |-> Getenv(envMode, Str("auto")),
      timeout |-> PyInt(DefaultTimeout),
      debug |-> FALSE,
      discovered_host |-> None,
      discovery_attempted |-> FALSE ]

\* discover_via_bonjour(): whatever dns-sd does, the function returns
\* (None, None)
discover_via_bonjour == <<None, None>>

\* get_host_with without the flag that remembers the discovery attempt
get_host_with_NoFlag(c, d) ==
    IF Truthy(c.host) THEN [host |-> c.host, config |-> c, discovered |-> FALSE]
    ELSE LET c2 == IF Truthy(d[1])
                   THEN [c EXCEPT !.discovered_host = d[1],
                                  !.port = IF Truthy(d[2]) THEN d[2] ELSE @]
                   ELSE c
         IN [host |-> IF Truthy(c2.discovered_host) THEN c2.discovered_host
                      ELSE Str(Loopback),
             config |-> c2, discovered |-> TRUE]

\* get_host_with taking the port from the discovery whatever it reported
get_host_with_AnyPort(c, d) ==
    IF Truthy(c.host) THEN [host |-> c.host, config |-> c, discovered |-> FALSE]
    ELSE IF ~c.discovery_attempted THEN
        LET c1 == [c EXCEPT !.discovery_attempted = TRUE]
            c2 == IF Truthy(d[1])
                  THEN [c1 EXCEPT !.discovered_host = d[1], !.port = d[2]]
                  ELSE c1
        IN [host |-> IF Truthy(c2.discovered_host) THEN c2.discovered_host
                     ELSE Str(Loopback),
            config |-> c2, discovered |-> TRUE]
    ELSE [host |-> IF Truthy(c.discovered_host) THEN c.discovered_host
                   ELSE Str(Loopback),
          config |-> c, discovered |-> FALSE]

\* get_host_with storing the host it resolved as the configured host
get_host_with_StoresHost(c, d) ==
    IF Truthy(c.host) THEN [host |-> c.host, config |-> c, discovered |-> FALSE]
    ELSE LET c1 == [c EXCEPT !.discovery_attempted = TRUE]
             h == IF Truthy(d[1]) THEN d[1] ELSE Str(Loopback)
         IN [host |-> h, config |-> [c1 EXCEPT !.host = h], discovered |-> TRUE]

\* ConnectionConfig.get_host() when discover_via_bonjour() returns d: the
\* host returned, the configuration after the call and whether the
\* discovery hook was called
get_host_with(c, d) ==
    IF Truthy(c.host) THEN [host |-> c.host, config |-> c, discovered |-> FALSE]
    ELSE IF ~c.discovery_attempted THEN
        LET c1 == [c EXCEPT !.discovery_attempted = TRUE]
            c2 == IF Truthy(d[1])
                  THEN [c1 EXCEPT !.discovered_host = d[1],
                                  !.port = IF Truthy(d[2]) THEN d[2] ELSE @]
                  ELSE c1
        IN [host |-> IF Truthy(c2.discovered_host) THEN c2.discovered_host
                     ELSE Str(Loopback),
            config |-> c2, discovered |-> TRUE]
    ELSE [host |-> IF Truthy(c.discovered_host) THEN c.discovered_host
                   ELSE Str(Loopback),
          config |-> c, discovered |-> FALSE]

\* ConnectionConfig.get_host() of the script as it is
get_host(c) == get_host_with(c, discover_via_bonjour)

----------------------------------------------------------------------------
(* State of one process run.                                               *)

VARIABLES
    variant,            \* "nook" or "island": which script runs
    config,             \* the global ConnectionConfig instance
    data,               \* the hook input read from stdin by main()
    pathExists,         \* filesystem: os.path.exists(config.socket_path)
    fsChanges,          \* how often the path appeared or disappeared so far
    pc,                 \* position of the process
    wait_for_response,  \* argument of send_event and of the transports
    result,             \* local variable `result` of send_event
    host,               \* local variable `host` of send_event / send_via_tcp
    auto_trusted,       \* local variable of send_via_tcp
    auth_response,      \* local variable of send_via_tcp
    initial_response,   \* local variable of send_via_tcp (<<>> until read)
    probe,              \* how the greeting probe's recv ended ("none": not run)
    ret,                \* value send_event returned (Unbound: not returned)
    exc,                \* exception that left send_event ("" for none)
    localRet,           \* value send_via_socket returned (Unbound: none yet)
    remoteRet,          \* value send_via_tcp returned (Unbound: none yet)
    fd,                 \* per channel: "none", "unconnected", "connected", "closed"
    rx,                 \* bytes that arrived on the socket in use, not read yet
    peer,               \* peer of the socket in use: chunks sent, whether it
                        \* closed, whether it sent anything after the AUTH line
    ops,                \* calls of send_event, socket operations, resolver calls
    discoveries,        \* number of calls of discover_via_bonjour
    printed,            \* what main() printed on stdout (None: nothing)
    exit_status,        \* exit status of the process (None: still running)
    hook,               \* resolver runs: what the discovery hook returns
    returned,           \* resolver runs: the hosts get_host returned, in order
    ip,                 \* classifier runs: the address string under test
    classified,         \* classifier runs: what is_tailscale_ip(ip) returned
    eligible            \* classifier runs: the test of line 284 for that host

vars == <<variant, config, data, pathExists, fsChanges, pc, wait_for_response,
          result, host, auto_trusted, auth_response, initial_response, probe,
          ret, exc, localRet, remoteRet, fd, rx, peer, ops, discoveries,
          printed, exit_status, hook, returned, ip, classified, eligible>>

cfgVars == <<variant, config, data>>
envVars == <<pathExists, fsChanges>>
tcpLocals == <<host, auto_trusted, auth_response, initial_response, probe>>
outVars == <<result, ret, exc, localRet, remoteRet>>
mainVars == <<printed, exit_status>>
unitVars == <<hook, returned, ip, classified, eligible>>

Channels == {"unix", "tcp"}

\* the hook inputs of the model: the event that waits for a decision, an
\* event that does not, and the notification main() drops
Inputs ==
    { [hook_event_name |-> "PermissionRequest", notification_type |-> Absent],
      [hook_event_name |-> "Stop", notification_type |-> Absent],
      [hook_event_name |-> "Notification", notification_type |-> "permission_prompt"] }

\* chunks the companion application (or whoever listens) may send
UnixChunks == { <<doc>> : doc \in JsonDocs } \cup { <<"X">>, <<BadByte>> }
TcpChunks ==
    { <<"O", "K", NL>>, <<"O", "K">>, <<NL>>, <<NL, "O", "K">>, <<"X", NL>>,
      <<BadByte>>, <<DocAllow>> }

NoPeer == [sends |-> 0, closed |-> FALSE, answered |-> FALSE]

Init ==
    /\ variant \in {"nook", "island"}
    /\ \E h \in EnvHosts, t \in EnvTokens, m \in EnvModes :
          config = IF variant = "nook" THEN NookConfig(h, t, m)
                   ELSE IslandConfig(h, t, m)
    /\ data \in Inputs
    /\ pathExists \in BOOLEAN
    /\ fsChanges = 0
    /\ pc = "main"
    /\ wait_for_response = FALSE
    /\ result = Unbound
    /\ host = Unbound
    /\ auto_trusted = FALSE
    /\ auth_response = <<>>
    /\ initial_response = <<>>
    /\ probe = "none"
    /\ ret = Unbound
    /\ exc = ""
    /\ localRet = Unbound
    /\ remoteRet = Unbound
    /\ fd = [ch \in Channels |-> "none"]
    /\ rx = <<>>
    /\ peer = NoPeer
    /\ ops = <<>>
    /\ discoveries = 0
    /\ printed = None
    /\ exit_status = None
    /\ hook = discover_via_bonjour
    /\ returned = <<>>
    /\ ip = <<>>
    /\ classified = FALSE
    /\ eligible = FALSE

----------------------------------------------------------------------------
(* The environment: the peer of the connection and the filesystem.         *)

UnixPcs == {"sock_send", "sock_recv"}
TcpPcs == {"tcp_probe", "tcp_auth_send", "tcp_auth_recv", "tcp_payload", "tcp_reply"}

\* the peer of the connection the process is using sends a chunk
PeerSend(chunk) ==
    /\ \/ pc \in UnixPcs /\ chunk \in UnixChunks
       \/ pc \in TcpPcs /\ chunk \in TcpChunks
    /\ ~peer.closed
    /\ peer.sends < MaxPeerSends
    /\ rx' = rx \o chunk
    /\ peer' = [peer EXCEPT !.sends = @ + 1,
                            !.answered = @ \/ pc = "tcp_auth_recv"]
    /\ UNCHANGED <<cfgVars, mainVars, unitVars,
                   envVars, pc, wait_for_response, tcpLocals, outVars,
                   fd, ops, discoveries>>

\* the peer closes its end
PeerClose ==
    /\ pc \in UnixPcs \cup TcpPcs
    /\ ~peer.closed
    /\ peer' = [peer EXCEPT !.closed = TRUE]
    /\ UNCHANGED <<cfgVars, mainVars, unitVars,
                   envVars, pc, wait_for_response, tcpLocals, outVars,
                   fd, rx, ops, discoveries>>

\* the companion application starts or stops and the socket file with it
FsChange ==
    /\ pc \notin {"done", "exit"}
    /\ fsChanges < MaxFsChanges
    /\ pathExists' = ~pathExists
    /\ fsChanges' = fsChanges + 1
    /\ UNCHANGED <<cfgVars, mainVars, unitVars,
                   pc, wait_for_response, tcpLocals, outVars, fd, rx,
                   peer, ops, discoveries>>

\* what a blocking recv() can do: deliver what arrived, report end of
\* stream or a reset once the peer closed, time out while nothing arrives
RecvOutcomes ==
    IF rx # <<>> THEN {"data"}
    ELSE IF peer.closed THEN {"eof", "reset"}
    ELSE {"timeout"}

\* what sendall() can do: it fails only against a peer that is gone
SendOutcomes == IF peer.closed THEN {"ok", "error"} ELSE {"ok"}

----------------------------------------------------------------------------
(* main(): before send_event is called and after it returned or raised.    *)

\* WaitsForResponse asking for a reply to every event
WaitsForResponse_Always(event) == TRUE

\* lines 346 and 414: send_event(state, wait_for_response=True) for a
\* PermissionRequest, send_event(state) for every other event
WaitsForResponse(event) == event = "PermissionRequest"

main ==
    /\ pc = "main"
    /\ IF /\ data.hook_event_name = "Notification"
          /\ data.notification_type = "permission_prompt"
       THEN \* sys.exit(0) without sending anything
            /\ pc' = "exit"
            /\ exit_status' = PyInt(0)
            /\ UNCHANGED wait_for_response
       ELSE /\ wait_for_response' = WaitsForResponse(data.hook_event_name)
            /\ pc' = "send_event"
            /\ UNCHANGED exit_status
    /\ UNCHANGED <<cfgVars, printed, unitVars, envVars, tcpLocals, outVars, fd,
                   rx, peer, ops, discoveries>>

\* the `message` of a deny output when the reply gives no reason
DefaultDenyMessage(v) ==
    IF v = "nook" THEN "Denied by user via Claude Nook"
    ELSE "Denied by user via ClaudeIsland"

\* the JSON document main() prints for a decision
Output(behavior, message) ==
    [t |-> "output", hookEventName |-> "PermissionRequest",
     behavior |-> behavior, message |-> message]

\* lines 348-378: what main() prints and the status it exits with, given the
\* value of send_event; `.get` on a value that is no dict raises
\* AttributeError, which nothing catches (status 1)
PermissionOutcome(response, v) ==
    IF ~Truthy(response) THEN [printed |-> None, status |-> 0]
    ELSE IF response.t # "dict" THEN [printed |-> None, status |-> 1]
    ELSE LET decision == IF response.decision = Absent THEN "ask"
                         ELSE response.decision
             reason == IF response.reason = Absent THEN "" ELSE response.reason
         IN
         IF decision = "allow"
         THEN [printed |-> Output("allow", Absent), status |-> 0]
         ELSE IF decision = "deny"
         THEN [printed |-> Output("deny", IF reason # "" THEN reason
                                          ELSE DefaultDenyMessage(v)),
               status |-> 0]
         ELSE [printed |-> None, status |-> 0]

\* main() after send_event: an exception that left send_event ends the
\* process with a traceback and status 1; a PermissionRequest maps the reply
\* to an output; every other event falls off the end of main()
main_after_send_event ==
    /\ pc = "done"
    /\ pc' = "exit"
    /\ IF exc # ""
       THEN /\ exit_status' = PyInt(1)
            /\ UNCHANGED printed
       ELSE IF data.hook_event_name = "PermissionRequest"
       THEN LET o == PermissionOutcome(ret, variant) IN
            /\ printed' = o.printed
            /\ exit_status' = PyInt(o.status)
       ELSE /\ exit_status' = PyInt(0)
            /\ UNCHANGED printed
    /\ UNCHANGED <<cfgVars, unitVars, envVars, wait_for_response, tcpLocals,
                   outVars, fd, rx, peer, ops, discoveries>>

----------------------------------------------------------------------------
(* How a step of a transport ends.                                         *)

\* the transport goes on with its next socket operation
Goto(p) ==
    /\ pc' = p
    /\ UNCHANGED <<outVars, peer>>

\* what the peer sent and nobody read is dropped with the connection
Leave ==
    /\ rx' = <<>>
    /\ peer' = NoPeer

\* `return v` of send_via_socket: in socket mode send_event returns it at
\* once, in automatic mode it becomes send_event's `result`
SocketReturn(v) ==
    /\ localRet' = v
    /\ IF config.mode = Str("socket")
       THEN /\ ret' = v
            /\ pc' = "done"
            /\ result' = result
       ELSE /\ result' = v
            /\ pc' = "auto_after_socket"
            /\ ret' = ret
    /\ UNCHANGED <<exc, remoteRet>>
    /\ Leave

\* TcpReturn where send_event goes on to the local channel, if it was not
\* used yet, after the remote attempt
TcpReturn_ThenLocal(v) ==
    /\ remoteRet' = v
    /\ IF fd["unix"] = "none"
       THEN pc' = "sock_connect" /\ ret' = ret
       ELSE pc' = "done" /\ ret' = v
    /\ UNCHANGED <<exc, result, localRet>>
    /\ Leave

\* `return v` of send_via_tcp, which send_event returns unchanged
TcpReturn(v) ==
    /\ remoteRet' = v
    /\ ret' = v
    /\ pc' = "done"
    /\ UNCHANGED <<exc, result, localRet>>
    /\ Leave

\* an exception no handler of the script catches leaves send_event
Propagate(e) ==
    /\ exc' = e
    /\ pc' = "done"
    /\ UNCHANGED <<ret, result, localRet, remoteRet>>
    /\ Leave

\* the reply handling shared by both transports: b"" is no reply, decode()
\* may raise UnicodeDecodeError, json.loads() may raise JSONDecodeError
\* (caught by the transport, which then returns None)
ReplyRaises(response) == response # <<>> /\ DecodeRaises(response)

ReplyValue(response) ==
    IF response = <<>> THEN None
    ELSE IF JsonRaises(response) THEN None
    ELSE json_loads(response)

----------------------------------------------------------------------------
(* send_via_socket(), the same code in both scripts.                       *)

send_via_socket_connect ==
    /\ pc = "sock_connect"
    /\ ops' = Append(ops, "unix.connect")
    /\ \/ /\ ~pathExists                       \* FileNotFoundError
          /\ fd' = [fd EXCEPT !["unix"] = "unconnected"]
          /\ SocketReturn(None)
       \/ /\ pathExists
          /\ \E outcome \in {"ok", "refused"} :
                IF outcome = "ok"
                THEN /\ fd' = [fd EXCEPT !["unix"] = "connected"]
                     /\ Goto("sock_send")
                     /\ UNCHANGED rx
                ELSE /\ fd' = [fd EXCEPT !["unix"] = "unconnected"]
                     /\ SocketReturn(None)
    /\ UNCHANGED <<cfgVars, mainVars, unitVars,
                   envVars, wait_for_response, tcpLocals, discoveries>>

send_via_socket_send ==
    /\ pc = "sock_send"
    /\ \E outcome \in SendOutcomes :
          IF outcome = "error"
          THEN /\ ops' = Append(ops, "unix.send.payload")
               /\ SocketReturn(None)
               /\ UNCHANGED fd
          ELSE IF wait_for_response
          THEN /\ ops' = Append(ops, "unix.send.payload")
               /\ Goto("sock_recv")
               /\ UNCHANGED <<fd, rx>>
          ELSE /\ ops' = ops \o <<"unix.send.payload", "unix.close">>
               /\ fd' = [fd EXCEPT !["unix"] = "closed"]
               /\ SocketReturn(None)
    /\ UNCHANGED <<cfgVars, mainVars, unitVars,
                   envVars, wait_for_response, tcpLocals, discoveries>>

send_via_socket_recv ==
    /\ pc = "sock_recv"
    /\ \E outcome \in RecvOutcomes :
          IF outcome \in {"timeout", "reset"}
          THEN /\ ops' = Append(ops, "unix.recv.reply")
               /\ SocketReturn(None)
               /\ UNCHANGED fd
          ELSE /\ ops' = ops \o <<"unix.recv.reply", "unix.close">>
               /\ fd' = [fd EXCEPT !["unix"] = "closed"]
               /\ IF ReplyRaises(rx)
                  THEN Propagate("UnicodeDecodeError")
                  ELSE SocketReturn(ReplyValue(rx))
    /\ UNCHANGED <<cfgVars, mainVars, unitVars,
                   envVars, wait_for_response, tcpLocals, discoveries>>

----------------------------------------------------------------------------
(* send_event() of claude-nook-state.py.                                   *)

\* RemoteEligible with the test of token and overlay range left out
RemoteEligible_HostOnly(c, h) == Truthy(h)

\* line 284: the condition under which automatic mode goes on to TCP
RemoteEligible(c, h) ==
    Truthy(h) /\ (Truthy(c.token) \/ is_tailscale_ip(h.s))

\* line 276: the local result is final
LocalIsFinal(r, wait) == r # None \/ ~wait

\* FirstStep without the branch for mode "socket"
FirstStep_NoSocketBranch(mode, exists) ==
    IF mode = Str("tcp") THEN "tcp_begin"
    ELSE IF exists THEN "sock_connect"
    ELSE "auto_remote"

\* lines 261-274: the transport the mode starts with
FirstStep(mode, exists) ==
    IF mode = Str("socket") THEN "sock_connect"
    ELSE IF mode = Str("tcp") THEN "tcp_begin"
    ELSE IF exists THEN "sock_connect"
    ELSE "auto_remote"

send_event ==
    /\ pc = "send_event"
    /\ variant = "nook"
    /\ pc' = FirstStep(config.mode, pathExists)
    /\ ops' = Append(ops, "send_event")
    /\ UNCHANGED <<cfgVars, mainVars, unitVars,
                   envVars, wait_for_response, tcpLocals, outVars, fd,
                   rx, peer, discoveries>>

send_event_after_socket ==
    /\ pc = "auto_after_socket"
    /\ variant = "nook"
    /\ IF LocalIsFinal(result, wait_for_response)
       THEN /\ ret' = result
            /\ pc' = "done"
       ELSE /\ pc' = "auto_remote"
            /\ UNCHANGED ret
    /\ UNCHANGED <<cfgVars, mainVars, unitVars,
                   envVars, wait_for_response, result, tcpLocals, exc,
                   localRet, remoteRet, fd, rx, peer, ops, discoveries>>

\* lines 283-288: resolve the host, go on to send_via_tcp or `return result`;
\* `result` is unbound when the socket path did not exist at line 274
send_event_remote ==
    /\ pc = "auto_remote"
    /\ variant = "nook"
    /\ LET g == get_host(config) IN
       /\ config' = g.config
       /\ host' = g.host
       /\ ops' = ops \o (IF g.discovered THEN <<"get_host", "discover">>
                         ELSE <<"get_host">>)
       /\ discoveries' = discoveries + (IF g.discovered THEN 1 ELSE 0)
       /\ IF RemoteEligible(g.config, g.host)
          THEN /\ pc' = "tcp_begin"
               /\ UNCHANGED <<ret, exc>>
          ELSE /\ pc' = "done"
               /\ IF result = Unbound
                  THEN exc' = "UnboundLocalError" /\ UNCHANGED ret
                  ELSE ret' = result /\ UNCHANGED exc
    /\ UNCHANGED <<variant, data, mainVars, unitVars,
                   envVars, wait_for_response, result,
                   auto_trusted, auth_response, initial_response, probe,
                   localRet, remoteRet, fd, rx, peer>>

----------------------------------------------------------------------------
(* send_event() of claude-island-state.py.                                 *)

\* lines 181-191: automatic mode starts with the socket whatever the path
IslandFirstStep(mode) ==
    IF mode = Str("tcp") THEN "tcp_begin" ELSE "sock_connect"

\* lines 198-202: TCP is tried when a token is set and the socket path does
\* not exist now; the test of line 192 guards a `pass` and decides nothing
IslandFallback(c, exists) == Truthy(c.token) /\ ~exists

island_send_event ==
    /\ pc = "send_event"
    /\ variant = "island"
    /\ pc' = IslandFirstStep(config.mode)
    /\ ops' = Append(ops, "send_event")
    /\ UNCHANGED <<cfgVars, mainVars, unitVars,
                   envVars, wait_for_response, tcpLocals, outVars, fd,
                   rx, peer, discoveries>>

island_send_event_after_socket ==
    /\ pc = "auto_after_socket"
    /\ variant = "island"
    /\ IF IslandFallback(config, pathExists)
       THEN /\ pc' = "tcp_begin"
            /\ UNCHANGED ret
       ELSE /\ ret' = result
            /\ pc' = "done"
    /\ UNCHANGED <<cfgVars, mainVars, unitVars,
                   envVars, wait_for_response, result, tcpLocals, exc,
                   localRet, remoteRet, fd, rx, peer, ops, discoveries>>

----------------------------------------------------------------------------
(* send_via_tcp().  From the AUTH line on the two scripts have the same    *)
(* code (nook 204-254, island 124-174).                                    *)

\* GreetingTrusted comparing the raw bytes, without strip()
GreetingTrusted_NoStrip(received) == received = B_OK

\* line 188: the greeting that makes the connection auto-trusted
GreetingTrusted(received) ==
    received # <<>> /\ strip(received) = B_OK

\* AuthComplete after the first chunk, newline or not
AuthComplete_FirstChunk(buf) == buf # <<>>

\* line 211: the auth read loop ends once the buffer holds a newline
AuthComplete(buf) == \E i \in 1..Len(buf) : buf[i] = NL

\* AuthAccepted as a test for OK anywhere in the reply
AuthAccepted_Contains(buf) ==
    \E i \in 1..(Len(buf) - 1) : buf[i] = "O" /\ buf[i + 1] = "K"

\* lines 219-222: the auth result
AuthAccepted(buf) == strip(buf) = B_OK

\* line 217, `auth_response += chunk`.  The loop test (211) and the
\* comparison (219-222) cannot tell a buffer of MaxAuthKept or more bytes
\* and no newline from the same buffer with more "X" bytes in it, so those
\* bytes are read and not stored
Accumulate(buf, chunk) ==
    IF chunk = <<"X">> /\ Len(buf) >= MaxAuthKept /\ ~AuthComplete(buf)
    THEN buf
    ELSE buf \o chunk

\* line 174 of claude-nook-state.py
send_via_tcp_begin ==
    /\ pc = "tcp_begin"
    /\ variant = "nook"
    /\ LET g == get_host(config) IN
       /\ config' = g.config
       /\ host' = g.host
       /\ ops' = ops \o (IF g.discovered THEN <<"get_host", "discover">>
                         ELSE <<"get_host">>)
       /\ discoveries' = discoveries + (IF g.discovered THEN 1 ELSE 0)
    /\ pc' = "tcp_connect"
    /\ UNCHANGED <<variant, data, mainVars, unitVars,
                   envVars, wait_for_response, auto_trusted,
                   auth_response, initial_response, probe, outVars, fd, rx, peer>>

\* lines 114-116 of claude-island-state.py: no token, no connection
island_send_via_tcp_begin ==
    /\ pc = "tcp_begin"
    /\ variant = "island"
    /\ IF ~Truthy(config.token)
       THEN /\ TcpReturn(None)
            /\ UNCHANGED host
       ELSE /\ host' = config.host
            /\ Goto("tcp_connect")
            /\ UNCHANGED rx
    /\ UNCHANGED <<cfgVars, mainVars, unitVars,
                   envVars, wait_for_response, auto_trusted,
                   auth_response, initial_response, probe, fd, ops, discoveries>>

\* lines 176-180 of claude-nook-state.py; the greeting probe comes next
send_via_tcp_connect ==
    /\ pc = "tcp_connect"
    /\ variant = "nook"
    /\ ops' = Append(ops, "tcp.connect")
    /\ \E outcome \in {"ok", "refused", "timeout"} :
          IF outcome = "ok"
          THEN /\ fd' = [fd EXCEPT !["tcp"] = "connected"]
               /\ Goto("tcp_probe")
               /\ UNCHANGED rx
          ELSE /\ fd' = [fd EXCEPT !["tcp"] = "unconnected"]
               /\ TcpReturn(None)
    /\ UNCHANGED <<cfgVars, mainVars, unitVars,
                   envVars, wait_for_response, tcpLocals, discoveries>>

\* lines 118-122 of claude-island-state.py; the AUTH line comes next
island_send_via_tcp_connect ==
    /\ pc = "tcp_connect"
    /\ variant = "island"
    /\ ops' = Append(ops, "tcp.connect")
    /\ \E outcome \in {"ok", "refused", "timeout"} :
          IF outcome = "ok"
          THEN /\ fd' = [fd EXCEPT !["tcp"] = "connected"]
               /\ Goto("tcp_auth_send")
               /\ UNCHANGED rx
          ELSE /\ fd' = [fd EXCEPT !["tcp"] = "unconnected"]
               /\ TcpReturn(None)
    /\ UNCHANGED <<cfgVars, mainVars, unitVars,
                   envVars, wait_for_response, tcpLocals, discoveries>>

\* lines 184-202: the 0.5 s probe for a greeting, then the choice between
\* payload, AUTH and giving up
send_via_tcp_probe ==
    /\ pc = "tcp_probe"
    /\ \E outcome \in RecvOutcomes :
          IF outcome = "reset"              \* OSError, outer handler
          THEN /\ ops' = Append(ops, "tcp.recv.probe")
               /\ probe' = "reset"
               /\ TcpReturn(None)
               /\ UNCHANGED <<auto_trusted, initial_response, fd>>
          ELSE IF outcome = "data" /\ DecodeRaises(rx)
          THEN /\ ops' = Append(ops, "tcp.recv.probe")
               /\ probe' = "data"
               /\ initial_response' = rx
               /\ Propagate("UnicodeDecodeError")
               /\ UNCHANGED <<auto_trusted, fd>>
          ELSE LET received == IF outcome = "data" THEN rx ELSE <<>>
                   trusted == GreetingTrusted(received)
               IN
               /\ probe' = outcome
               /\ initial_response' = received
               /\ auto_trusted' = trusted
               /\ IF trusted
                  THEN /\ ops' = Append(ops, "tcp.recv.probe")
                       /\ Goto("tcp_payload")
                       /\ rx' = <<>>
                       /\ UNCHANGED fd
                  ELSE IF ~Truthy(config.token)
                  THEN /\ ops' = ops \o <<"tcp.recv.probe", "tcp.close">>
                       /\ fd' = [fd EXCEPT !["tcp"] = "closed"]
                       /\ TcpReturn(None)
                  ELSE /\ ops' = Append(ops, "tcp.recv.probe")
                       /\ Goto("tcp_auth_send")
                       /\ rx' = <<>>
                       /\ UNCHANGED fd
    /\ UNCHANGED <<cfgVars, mainVars, unitVars,
                   envVars, wait_for_response, host, auth_response,
                   discoveries>>

\* lines 204-210
send_via_tcp_auth_send ==
    /\ pc = "tcp_auth_send"
    /\ ops' = Append(ops, "tcp.send.AUTH")
    /\ \E outcome \in SendOutcomes :
          IF outcome = "ok"
          THEN /\ auth_response' = <<>>
               /\ Goto("tcp_auth_recv")
               /\ UNCHANGED rx
          ELSE /\ TcpReturn(None)
               /\ UNCHANGED auth_response
    /\ UNCHANGED <<cfgVars, mainVars, unitVars,
                   envVars, wait_for_response, host, auto_trusted,
                   initial_response, probe, fd, discoveries>>

\* lines 211-225: one recv of the auth loop and, once the buffer holds a
\* newline, the comparison with OK
send_via_tcp_auth_recv ==
    /\ pc = "tcp_auth_recv"
    /\ \E outcome \in RecvOutcomes :
          IF outcome \in {"timeout", "reset"}
          THEN /\ ops' = Append(ops, "tcp.recv.auth")
               /\ TcpReturn(None)
               /\ UNCHANGED <<auth_response, fd>>
          ELSE IF outcome = "eof"
          THEN /\ ops' = ops \o <<"tcp.recv.auth", "tcp.close">>
               /\ fd' = [fd EXCEPT !["tcp"] = "closed"]
               /\ TcpReturn(None)
               /\ UNCHANGED auth_response
          ELSE LET buf == Accumulate(auth_response, rx) IN
               /\ auth_response' = buf
               /\ IF ~AuthComplete(buf)
                  THEN \* a read whose byte is not stored is not logged again
                       /\ ops' = IF buf = auth_response THEN ops
                                 ELSE Append(ops, "tcp.recv.auth")
                       /\ Goto("tcp_auth_recv")
                       /\ rx' = <<>>
                       /\ UNCHANGED fd
                  ELSE IF DecodeRaises(buf)
                  THEN /\ ops' = Append(ops, "tcp.recv.auth")
                       /\ Propagate("UnicodeDecodeError")
                       /\ UNCHANGED fd
                  ELSE IF AuthAccepted(buf)
                  THEN /\ ops' = Append(ops, "tcp.recv.auth")
                       /\ Goto("tcp_payload")
                       /\ rx' = <<>>
                       /\ UNCHANGED fd
                  ELSE /\ ops' = ops \o <<"tcp.recv.auth", "tcp.close">>
                       /\ fd' = [fd EXCEPT !["tcp"] = "closed"]
                       /\ TcpReturn(None)
    /\ UNCHANGED <<cfgVars, mainVars, unitVars,
                   envVars, wait_for_response, host, auto_trusted,
                   initial_response, probe, discoveries>>

\* lines 227-229 and, when no reply is awaited, 238-242
send_via_tcp_payload ==
    /\ pc = "tcp_payload"
    /\ \E outcome \in SendOutcomes :
          IF outcome = "error"
          THEN /\ ops' = Append(ops, "tcp.send.payload")
               /\ TcpReturn(None)
               /\ UNCHANGED fd
          ELSE IF wait_for_response
          THEN /\ ops' = Append(ops, "tcp.send.payload")
               /\ Goto("tcp_reply")
               /\ UNCHANGED <<fd, rx>>
          ELSE /\ ops' = ops \o <<"tcp.send.payload", "tcp.close">>
               /\ fd' = [fd EXCEPT !["tcp"] = "closed"]
               /\ TcpReturn(None)
    /\ UNCHANGED <<cfgVars, mainVars, unitVars,
                   envVars, wait_for_response, tcpLocals, discoveries>>

\* lines 231-237, 241-254
send_via_tcp_reply ==
    /\ pc = "tcp_reply"
    /\ \E outcome \in RecvOutcomes :
          IF outcome \in {"timeout", "reset"}
          THEN /\ ops' = Append(ops, "tcp.recv.reply")
               /\ TcpReturn(None)
               /\ UNCHANGED fd
          ELSE /\ ops' = ops \o <<"tcp.recv.reply", "tcp.close">>
               /\ fd' = [fd EXCEPT !["tcp"] = "closed"]
               /\ IF ReplyRaises(rx)
                  THEN Propagate("UnicodeDecodeError")
                  ELSE TcpReturn(ReplyValue(rx))
    /\ UNCHANGED <<cfgVars, mainVars, unitVars,
                   envVars, wait_for_response, tcpLocals, discoveries>>

----------------------------------------------------------------------------

Next ==
    \/ main
    \/ main_after_send_event
    \/ send_event
    \/ send_event_after_socket
    \/ send_event_remote
    \/ island_send_event
    \/ island_send_event_after_socket
    \/ send_via_socket_connect
    \/ send_via_socket_send
    \/ send_via_socket_recv
    \/ send_via_tcp_begin
    \/ island_send_via_tcp_begin
    \/ send_via_tcp_connect
    \/ island_send_via_tcp_connect
    \/ send_via_tcp_probe
    \/ send_via_tcp_auth_send
    \/ send_via_tcp_auth_recv
    \/ send_via_tcp_payload
    \/ send_via_tcp_reply
    \/ \E chunk \in UnixChunks \cup TcpChunks : PeerSend(chunk)
    \/ PeerClose
    \/ FsChange

Spec == Init /\ [][Next]_vars

----------------------------------------------------------------------------
(* Runs against a peer that may go on sending for ever.  Every socket      *)
(* operation of the hook completes or times out, so the hook always takes  *)
(* its next step; the peer and the filesystem are under no obligation.     *)

\* during the auth read the peer sends one more byte that is no newline;
\* unlike PeerSend it may do so without end
PeerDrip ==
    /\ pc = "tcp_auth_recv"
    /\ ~peer.closed
    /\ rx = <<>>
    /\ rx' = <<"X">>
    /\ peer' = [peer EXCEPT !.answered = TRUE]
    /\ UNCHANGED <<cfgVars, mainVars, unitVars, envVars, pc, wait_for_response,
                   tcpLocals, outVars, fd, ops, discoveries>>

\* the steps of the hook process
HookStep ==
    \/ main
    \/ main_after_send_event
    \/ send_event
    \/ send_event_after_socket
    \/ send_event_remote
    \/ island_send_event
    \/ island_send_event_after_socket
    \/ send_via_socket_connect
    \/ send_via_socket_send
    \/ send_via_socket_recv
    \/ send_via_tcp_begin
    \/ island_send_via_tcp_begin
    \/ send_via_tcp_connect
    \/ island_send_via_tcp_connect
    \/ send_via_tcp_probe
    \/ send_via_tcp_auth_send
    \/ send_via_tcp_auth_recv
    \/ send_via_tcp_payload
    \/ send_via_tcp_reply

LiveNext ==
    \/ HookStep
    \/ \E chunk \in UnixChunks \cup TcpChunks : PeerSend(chunk)
    \/ PeerClose
    \/ PeerDrip
    \/ FsChange

LiveSpec == Init /\ [][LiveNext]_vars /\ WF_vars(HookStep)

\* the same fairness against the peer of Spec, which sends at most
\* MaxPeerSends chunks
FairSpec == Spec /\ WF_vars(HookStep)

----------------------------------------------------------------------------
(* Classifier runs: is_tailscale_ip and the test of line 284 applied to a  *)
(* host string taken from CLAUDE_NOOK_HOST.                                *)

\* numerals and other texts a part of the host string may be
P0 == <<"0">>
P1 == <<"1">>
P10 == <<"1", "0">>
P63 == <<"6", "3">>
P64 == <<"6", "4">>
P100 == <<"1", "0", "0">>
P127 == <<"1", "2", "7">>
P128 == <<"1", "2", "8">>
P255 == <<"2", "5", "5">>
P256 == <<"2", "5", "6">>
P999 == <<"9", "9", "9">>
Pabc == <<"a", "b", "c">>
Pdef == <<"d", "e", "f">>

FirstParts == {P100, P10, Pabc}
SecondParts == {P0, P63, P64, P100, P127, P128, Pdef, <<>>}
ThirdParts == {P0, P1, P100, P255, P999, Pabc}
FourthParts == {P0, P1, P100, P255, P256, Pdef}

Dotted2(a, b) == a \o <<".">> \o b
Dotted3(a, b, c) == Dotted2(Dotted2(a, b), c)
Dotted4(a, b, c, d) == Dotted2(Dotted3(a, b, c), d)

\* the host strings of the classifier runs
Addresses ==
    { Dotted4(a, b, c, d) :
          a \in FirstParts, b \in SecondParts, c \in ThirdParts, d \in FourthParts }
    \cup { Dotted3(a, b, c) : a \in FirstParts, b \in SecondParts, c \in ThirdParts }
    \cup { Dotted2(Dotted4(a, b, P0, P1), c) :
              a \in FirstParts, b \in SecondParts, c \in ThirdParts }
    \cup FirstParts

ClassifierInit ==
    /\ variant = "nook"
    /\ ip \in Addresses
    /\ \E t \in EnvTokens : config = NookConfig(Str(ip), t, None)
    /\ data = [hook_event_name |-> "PermissionRequest", notification_type |-> Absent]
    /\ pathExists = FALSE
    /\ fsChanges = 0
    /\ pc = "is_tailscale_ip"
    /\ wait_for_response = FALSE
    /\ result = Unbound
    /\ host = Unbound
    /\ auto_trusted = FALSE
    /\ auth_response = <<>>
    /\ initial_response = <<>>
    /\ probe = "none"
    /\ ret = Unbound
    /\ exc = ""
    /\ localRet = Unbound
    /\ remoteRet = Unbound
    /\ fd = [ch \in Channels |-> "none"]
    /\ rx = <<>>
    /\ peer = NoPeer
    /\ ops = <<>>
    /\ discoveries = 0
    /\ printed = None
    /\ exit_status = None
    /\ hook = discover_via_bonjour
    /\ returned = <<>>
    /\ classified = FALSE
    /\ eligible = FALSE

\* is_tailscale_ip(ip) is called and returns
call_is_tailscale_ip ==
    /\ pc = "is_tailscale_ip"
    /\ classified' = is_tailscale_ip(ip)
    /\ pc' = "eligibility"
    /\ UNCHANGED <<cfgVars, mainVars, hook, returned, ip, eligible, envVars,
                   wait_for_response, tcpLocals, outVars, fd, rx, peer, ops,
                   discoveries>>

\* lines 283-284 of send_event with that host configured
call_eligibility ==
    /\ pc = "eligibility"
    /\ LET g == get_host(config) IN
       /\ config' = g.config
       /\ host' = g.host
       /\ eligible' = RemoteEligible(g.config, g.host)
    /\ pc' = "classified"
    /\ UNCHANGED <<variant, data, mainVars, hook, returned, ip, classified,
                   envVars, wait_for_response, auto_trusted, auth_response,
                   initial_response, probe, outVars, fd, rx, peer, ops,
                   discoveries>>

ClassifierNext == call_is_tailscale_ip \/ call_eligibility

ClassifierSpec == ClassifierInit /\ [][ClassifierNext]_vars

----------------------------------------------------------------------------
(* Resolver runs: get_host called again and again on one configuration,    *)
(* with the discovery hook returning what its contract allows: (host,      *)
(* port), with either possibly None.  The hook of the script itself always *)
(* returns (None, None).                                                   *)

HookResults ==
    { discover_via_bonjour,
      <<Str(HostOverlay), None>>,
      <<Str(HostPrivate), PyInt(DiscoveredPort)>>,
      <<None, PyInt(DiscoveredPort)>> }

ResolverInit ==
    /\ variant = "nook"
    /\ \E h \in EnvHosts, t \in EnvTokens, m \in EnvModes :
          config = NookConfig(h, t, m)
    /\ hook \in HookResults
    /\ returned = <<>>
    /\ data = [hook_event_name |-> "PermissionRequest", notification_type |-> Absent]
    /\ pathExists = FALSE
    /\ fsChanges = 0
    /\ pc = "get_host"
    /\ wait_for_response = FALSE
    /\ result = Unbound
    /\ host = Unbound
    /\ auto_trusted = FALSE
    /\ auth_response = <<>>
    /\ initial_response = <<>>
    /\ probe = "none"
    /\ ret = Unbound
    /\ exc = ""
    /\ localRet = Unbound
    /\ remoteRet = Unbound
    /\ fd = [ch \in Channels |-> "none"]
    /\ rx = <<>>
    /\ peer = NoPeer
    /\ ops = <<>>
    /\ discoveries = 0
    /\ printed = None
    /\ exit_status = None
    /\ ip = <<>>
    /\ classified = FALSE
    /\ eligible = FALSE

\* one call of config.get_host()
call_get_host ==
    /\ pc = "get_host"
    /\ Len(returned) < MaxCalls
    /\ LET g == get_host_with(config, hook) IN
       /\ config' = g.config
       /\ host' = g.host
       /\ returned' = Append(returned, g.host)
       /\ ops' = ops \o (IF g.discovered THEN <<"get_host", "discover">>
                         ELSE <<"get_host">>)
       /\ discoveries' = discoveries + (IF g.discovered THEN 1 ELSE 0)
    /\ UNCHANGED <<variant, data, mainVars, hook, ip, classified, eligible,
                   envVars, pc, wait_for_response, auto_trusted, auth_response,
                   initial_response, probe, outVars, fd, rx, peer>>

ResolverNext == call_get_host

ResolverSpec == ResolverInit /\ [][ResolverNext]_vars

----------------------------------------------------------------------------
(* Vocabulary of the properties.                                           *)

Has(op) == \E i \in 1..Len(ops) : ops[i] = op
Count(op) == Cardinality({i \in 1..Len(ops) : ops[i] = op})

TcpOps ==
    {"tcp.connect", "tcp.recv.probe", "tcp.send.AUTH", "tcp.recv.auth",
     "tcp.send.payload", "tcp.recv.reply", "tcp.close"}
NoTcp == \A i \in 1..Len(ops) : ops[i] \notin TcpOps

AutoMode == config.mode \notin {Str("socket"), Str("tcp")}

\* main() called send_event
SendEventCalled ==
    /\ pc # "main"
    /\ ~(data.hook_event_name = "Notification"
         /\ data.notification_type = "permission_prompt")

\* send_event is over, by a return or by an exception
SendEventOver == pc \in {"done", "exit"} /\ SendEventCalled

\* the hosts of the model inside 100.64.0.0/10
InOverlayRange(h) == h \in {HostOverlay}

\* the host the configuration resolves to
ResolvedHost == IF variant = "nook" THEN get_host(config).host ELSE config.host

TrimmedIsOK(b) == strip(b) = <<"O", "K">>
HasNewline(b) == \E i \in 1..Len(b) : b[i] = "nl"
EndsWithNewline(b) == b # <<>> /\ b[Len(b)] = "nl"

\* a decision mapping
IsDecision(v) == v.t = "dict"

----------------------------------------------------------------------------
(* C1: in automatic mode with the socket path absent, no token, no host    *)
(* configured and nothing discovered, send_event resolves the host to      *)
(* 127.0.0.1, makes no remote connection attempt and returns None.         *)
C1_LoopbackNoRemoteNone ==
    ( /\ SendEventOver
      /\ AutoMode
      /\ ~pathExists /\ fsChanges = 0
      /\ ~Truthy(config.token)
      /\ ~Truthy(config.host)
      /\ ~Truthy(config.discovered_host) )
    => ( /\ host = Str(Loopback)
         /\ NoTcp
         /\ exc = ""
         /\ ret = None )

(* C2: whatever the mode and whatever the peer does, send_event ends by    *)
(* returning a decision mapping or None, never by raising.                 *)
C2_NeverRaises ==
    SendEventOver => (exc = "" /\ (ret = None \/ IsDecision(ret)))

C4_GreetingSkipsAuth ==
    (probe = "data" /\ TrimmedIsOK(initial_response))
    => ( /\ ~Has("tcp.send.AUTH")
         /\ pc \in {"tcp_reply", "done"} => Has("tcp.send.payload") )

C4_Witness ==
    /\ probe = "data" /\ TrimmedIsOK(initial_response)
    /\ Truthy(config.token)
    /\ Has("tcp.send.payload")
    /\ pc = "done"

(* C5: no greeting within the probe and a token configured: exactly one    *)
(* AUTH line is sent, the payload follows only after a reply with a        *)
(* newline was read, and no attempt ever sends a second AUTH line.         *)
C5_OneAuthThenReplyThenPayload ==
    /\ Count("tcp.send.AUTH") <= 1
    /\ (probe = "timeout" /\ Truthy(config.token))
          => Count("tcp.send.AUTH") = (IF pc = "tcp_auth_send" THEN 0 ELSE 1)
    /\ (Has("tcp.send.AUTH") /\ Has("tcp.send.payload"))
          => /\ HasNewline(auth_response)
             /\ \E i, j, k \in 1..Len(ops) :
                   /\ i < j /\ j < k
                   /\ ops[i] = "tcp.send.AUTH"
                   /\ ops[j] = "tcp.recv.auth"
                   /\ ops[k] = "tcp.send.payload"
                   /\ \A m \in 1..(k - 1) : ops[m] # "tcp.send.payload"

C5_Witness ==
    /\ probe = "timeout"
    /\ Count("tcp.send.AUTH") = 1
    /\ Has("tcp.send.payload")
    /\ pc = "done"

(* C6: in tcp mode without a token and with a resolved host outside the    *)
(* overlay range the remote attempt opens no connection and yields None.   *)
C6_TcpModeShortCircuits ==
    ( /\ config.mode = Str("tcp")
      /\ ~Truthy(config.token)
      /\ ~InOverlayRange(ResolvedHost.s) )
    => ( /\ ~Has("tcp.connect")
         /\ SendEventOver => (exc = "" /\ ret = None) )

(* C7: in socket mode send_event opens no TCP socket, runs no host         *)
(* resolution or discovery, and returns what the local attempt returned.   *)
C7_SocketModeIsLocalOnly ==
    config.mode = Str("socket")
    => ( /\ NoTcp
         /\ fd["tcp"] = "none"
         /\ ~Has("get_host") /\ ~Has("discover") /\ discoveries = 0
         /\ host = Unbound
         /\ (SendEventOver /\ exc = "") => (localRet # Unbound /\ ret = localRet) )

C7_Witness ==
    /\ config.mode = Str("socket")
    /\ SendEventOver
    /\ ~pathExists
    /\ ret = None
    /\ Has("unix.connect")

(* C8: in automatic mode a remote connection is attempted only if a token  *)
(* is configured or the resolved host is in the overlay range.             *)
C8_AutoRemoteNeedsTrustOrToken ==
    (AutoMode /\ ~Truthy(config.token) /\ ~InOverlayRange(ResolvedHost.s))
    => (NoTcp /\ fd["tcp"] = "none")

C8_Witness ==
    /\ AutoMode /\ ~Truthy(config.token) /\ ~InOverlayRange(ResolvedHost.s)
    /\ SendEventOver
    /\ wait_for_response
    /\ localRet = None
    /\ ret = None

(* C9: in automatic mode, once the local channel was used and returned a   *)
(* decision, or no reply was required, send_event returns the local result *)
(* and the remote channel is never contacted, also when the socket path    *)
(* appears or disappears during the call.                                  *)
C9_LocalResultIsFinal ==
    ( /\ AutoMode
      /\ fd["unix"] \in {"connected", "closed"}
      /\ localRet # Unbound
      /\ (localRet # None \/ ~wait_for_response) )
    => ( /\ NoTcp
         /\ (SendEventOver /\ exc = "") => ret = localRet )

(* C10: in automatic mode, with the socket path present, a reply required  *)
(* and no decision from the local attempt, send_event attempts the remote  *)
(* channel whenever a token is configured or the host is in the overlay    *)
(* range, and returns the remote attempt's result.                         *)
C10_FallsThroughToRemote ==
    ( /\ AutoMode
      /\ SendEventOver
      /\ pathExists /\ fsChanges = 0
      /\ wait_for_response
      /\ localRet = None
      /\ (Truthy(config.token) \/ InOverlayRange(ResolvedHost.s)) )
    => ( /\ Has("tcp.connect")
         /\ exc = "" => (remoteRet # Unbound /\ ret = remoteRet) )

----------------------------------------------------------------------------
(* Vocabulary of the properties about main().                              *)

IsPermissionRequest == data.hook_event_name = "PermissionRequest"
Exited == pc = "exit"

\* the reply send_event handed to main(): None when it returned none or
\* did not return at all
TheReply == IF exc = "" /\ ret # Unbound THEN ret ELSE None

\* the output the reply calls for
ExpectedOutput(reply) ==
    IF reply.t # "dict" THEN None
    ELSE IF reply.decision = "allow"
    THEN [t |-> "output", hookEventName |-> "PermissionRequest",
          behavior |-> "allow", message |-> Absent]
    ELSE IF reply.decision = "deny"
    THEN [t |-> "output", hookEventName |-> "PermissionRequest",
          behavior |-> "deny",
          message |-> IF reply.reason \in {Absent, ""}
                      THEN (IF variant = "nook"
                            THEN "Denied by user via Claude Nook"
                            ELSE "Denied by user via ClaudeIsland")
                      ELSE reply.reason]
    ELSE None

(* C11: for a PermissionRequest the hook exits with status 0 and its       *)
(* output is a function of the reply alone: allow gives an allow output    *)
(* without message, deny gives a deny output with the reason (a fixed      *)
(* text when the reason is empty or missing), anything else (no reply,     *)
(* empty reply, ask, missing or unknown decision) gives no output.         *)
C11_OutcomeFromReply ==
    (Exited /\ IsPermissionRequest)
    => ( /\ exit_status = PyInt(0)
         /\ printed = ExpectedOutput(TheReply) )

\* bytes that are one JSON document of the model, blank space around it
ValidJsonBytes(b) ==
    \E i \in 1..Len(b) :
        /\ b[i] \in JsonDocs
        /\ \A j \in (1..Len(b)) \ {i} : b[j] = "nl"

(* C12: when the reply read on either channel is not a valid JSON document *)
(* (bytes that are not UTF-8 included), the attempt returns None and no    *)
(* exception leaves send_event.                                            *)
C12_BadReplyIsNoResult ==
    [][ ( /\ pc \in {"sock_recv", "tcp_reply"}
          /\ pc' # pc
          /\ rx # <<>>
          /\ ~ValidJsonBytes(rx) )
        => ( /\ exc' = ""
             /\ IF pc = "sock_recv" THEN localRet' = None
                ELSE remoteRet' = None ) ]_vars

----------------------------------------------------------------------------
(* Vocabulary of the properties about host strings.                        *)

\* the parts that are decimal octets, and their values
OctetNumerals == {P0, P1, P10, P63, P64, P100, P127, P128, P255}

NumeralValue(p) ==
    CASE p = P0 -> 0 [] p = P1 -> 1 [] p = P10 -> 10 [] p = P63 -> 63
      [] p = P64 -> 64 [] p = P100 -> 100 [] p = P127 -> 127
      [] p = P128 -> 128 [] p = P255 -> 255

\* exactly four dot-separated decimal octets, each in 0..255
WellFormed(s) ==
    \E a \in FirstParts \cap OctetNumerals, b \in SecondParts \cap OctetNumerals,
       c \in ThirdParts \cap OctetNumerals, d \in FourthParts \cap OctetNumerals :
        s = Dotted4(a, b, c, d)

\* is_tailscale_ip(ip) has returned
Classified == pc \in {"eligibility", "classified"}

(* C13: a dotted quad a.b.c.d is classified overlay-trusted exactly when   *)
(* a = 100 and 64 <= b <= 127, both boundaries included: 100.64.0.1,       *)
(* 100.100.100.100 and 100.127.255.255 are trusted, 100.63.255.255,        *)
(* 100.128.0.0 and 10.0.0.1 are not.                                       *)
C13_OverlayRangeExact ==
    Classified
    => /\ \A a \in FirstParts \cap OctetNumerals, b \in SecondParts \cap OctetNumerals,
             c \in ThirdParts \cap OctetNumerals, d \in FourthParts \cap OctetNumerals :
              ip = Dotted4(a, b, c, d)
              => (classified <=> ( /\ NumeralValue(a) = 100
                                   /\ 64 <= NumeralValue(b)
                                   /\ NumeralValue(b) <= 127 ))
       /\ ip \in { Dotted4(P100, P64, P0, P1), Dotted4(P100, P100, P100, P100),
                   Dotted4(P100, P127, P255, P255) } => classified
       /\ ip \in { Dotted4(P100, P63, P255, P255), Dotted4(P100, P128, P0, P0),
                   Dotted4(P10, P0, P0, P1) } => ~classified

C13_Witness ==
    /\ pc = "classified"
    /\ ip = Dotted4(P100, P127, P255, P255)
    /\ classified

(* C14: a host string that is not four dot-separated decimal octets in     *)
(* 0..255 is classified not overlay-trusted, and without a token it does   *)
(* not pass the test that lets automatic mode go on to the remote channel. *)
C14_MalformedNeverTrusted ==
    (Classified /\ ~WellFormed(ip))
    => ( /\ ~classified
         /\ (pc = "classified" /\ ~Truthy(config.token)) => ~eligible )

----------------------------------------------------------------------------
(* Vocabulary of the properties about get_host.                            *)

DiscoverySucceeded == hook[1] # None /\ hook[1].s # <<>>
PortReported == hook[2] # None /\ hook[2].n # 0
HostConfigured == config.host.s # <<>>

(* C15: over any sequence of get_host calls in one run the discovery hook  *)
(* is called at most once, whether it found a host or not, and every call  *)
(* returns the host the first call returned.                               *)
C15_DiscoverOnceSameHost ==
    /\ discoveries <= 1
    /\ Count("discover") <= 1
    /\ \A i \in 1..Len(returned) : returned[i] = returned[1]

C15_Witness ==
    /\ Len(returned) >= 2
    /\ discoveries = 1
    /\ DiscoverySucceeded

(* C16: get_host returns the configured host when it is not empty, without *)
(* discovery and without touching the port; otherwise the discovered host  *)
(* when discovery found one, the port changed only to a port discovery     *)
(* reported; otherwise 127.0.0.1.  It never returns an empty host.         *)
C16_HostPrecedence ==
    \A i \in 1..Len(returned) :
        /\ returned[i].t = "str" /\ returned[i].s # <<>>
        /\ IF HostConfigured
           THEN /\ returned[i] = config.host
                /\ discoveries = 0
                /\ config.port = PyInt(4851)
           ELSE IF DiscoverySucceeded
           THEN /\ returned[i] = hook[1]
                /\ config.port = (IF PortReported THEN hook[2] ELSE PyInt(4851))
           ELSE /\ returned[i].s = <<"1", "2", "7", ".", "0", ".", "0", ".", "1">>
                /\ config.port = PyInt(4851)

C16_Witness ==
    /\ ~HostConfigured
    /\ DiscoverySucceeded /\ PortReported
    /\ returned # <<>>
    /\ returned[1] = hook[1]
    /\ config.port = hook[2]

----------------------------------------------------------------------------
(* C17: a socket opened by an attempt is closed when the attempt returns,  *)
(* on every exit path, and no socket is open once send_event is over.      *)
C17_SocketsClosedOnReturn ==
    /\ localRet # Unbound => fd["unix"] \in {"none", "closed"}
    /\ remoteRet # Unbound => fd["tcp"] \in {"none", "closed"}
    /\ SendEventOver => \A ch \in Channels : fd[ch] \in {"none", "closed"}

(* C18: a run of the hook calls send_event at most once; the call waits   *)
(* for a reply exactly when the event is PermissionRequest, and for every  *)
(* other event no reply is read from either channel.                       *)
C18_OneCallReplyOnlyForPermission ==
    /\ Count("send_event") <= 1
    /\ Has("send_event") => (wait_for_response <=> IsPermissionRequest)
    /\ SendEventOver => Count("send_event") = 1
    /\ ~IsPermissionRequest
          => ~Has("unix.recv.reply") /\ ~Has("tcp.recv.reply")

C18_Witness ==
    /\ Exited
    /\ data.hook_event_name = "Stop"
    /\ Has("tcp.recv.auth")
    /\ Has("tcp.send.payload")
    /\ Has("tcp.close")

(* C19: on a remote connection whose probe ended without the greeting OK  *)
(* (timeout, another greeting, empty read) and with no token configured,   *)
(* the client sends neither AUTH nor the payload and the attempt returns   *)
(* None.                                                                   *)
C19_NoGreetingNoTokenAborts ==
    ( /\ probe \in {"timeout", "data", "eof"}
      /\ ~TrimmedIsOK(initial_response)
      /\ ~Truthy(config.token) )
    => ( /\ ~Has("tcp.send.AUTH")
         /\ ~Has("tcp.send.payload")
         /\ exc = ""
         /\ remoteRet = None )

----------------------------------------------------------------------------
UnixOps ==
    {"unix.connect", "unix.send.payload", "unix.recv.reply", "unix.close"}

(* C20: one call of send_event makes at most one local and at most one     *)
(* remote connection attempt; the local attempt has returned, and nothing  *)
(* more happens on its socket, before the remote connect starts; after the *)
(* remote attempt returned no further attempt is made.                     *)
C20_SequentialFallback ==
    /\ Count("unix.connect") <= 1
    /\ Count("tcp.connect") <= 1
    /\ \A i, j \in 1..Len(ops) :
          (ops[i] = "tcp.connect" /\ ops[j] \in UnixOps) => j < i
    /\ (Has("unix.connect") /\ Has("tcp.connect")) => localRet # Unbound
    /\ remoteRet # Unbound => pc \in {"done", "exit"}

C20_Witness ==
    /\ SendEventOver
    /\ Has("unix.recv.reply")
    /\ Has("tcp.connect")
    /\ remoteRet # Unbound

----------------------------------------------------------------------------
(* C21: once loaded, the configuration keeps its mode, token, socket path, *)
(* configured host, timeout and debug flag; only the discovery-attempted   *)
(* flag, the discovered host and the port are ever written, all in the one *)
(* step that sets the flag, hence each at most once in a run.              *)
C21_ConfigFrame ==
    [][ /\ config'.mode = config.mode
        /\ config'.token = config.token
        /\ config'.socket_path = config.socket_path
        /\ config'.host = config.host
        /\ config'.timeout = config.timeout
        /\ config'.debug = config.debug
        /\ config.discovery_attempted => config' = config
        /\ config' # config => config'.discovery_attempted ]_vars

C21_Witness ==
    /\ SendEventOver
    /\ config.discovery_attempted
    /\ Count("get_host") = 2
    /\ Has("tcp.connect")

----------------------------------------------------------------------------
(* C22: every call of send_event returns (or raises) in the end, whatever  *)
(* the peer does, provided each socket operation completes or times out.   *)
C22_SendEventReturns == (pc = "send_event") ~> (pc \in {"done", "exit"})

(* C23: when the client has sent an AUTH line and goes on to send the     *)
(* payload, what it accepted as the auth result was sent by the peer after *)
(* that AUTH line: bytes the peer sent before it, such as a greeting that  *)
(* missed the probe, are never taken as the acceptance of the token.       *)
C23_AcceptanceAnswersAuth ==
    (pc = "tcp_payload" /\ Has("tcp.send.AUTH")) => peer.answered

====
